---- MODULE Spec2Model ----
(***************************************************************************)
(* Control structure of train.py: main() (configuration checks, resume,    *)
(* evaluate-only exit, epoch loop with checkpointing), train() and         *)
(* validate(), for one process or for a group of distributed ranks.        *)
(*                                                                         *)
(* Numbers: the learning rate is held in units of 1e-6 (0.01 = 10000) and  *)
(* the decay factor gamma = 0.1 is applied as a division by GammaInv.      *)
(* A validation accuracy (top1.avg) is an integer in 0..MaxPrec.           *)
(* The model parameters (state_dict) are abstracted to the sequence of     *)
(* epochs whose optimizer steps produced them.                             *)
(***************************************************************************)
EXTENDS Integers, Sequences, FiniteSets, TLC

\* ---------------------------------------------------------------- bounds
MaxEpochs == 2
MaxPrec == 2
NumBatches == 2
NumValBatches == 1
WorldSize == 2
MaxRuns == 2

\* ------------------------------------------------------ program constants
DefaultLr == 10000
GammaInv == 10
NumClasses == 1000
PrintFreq == 10

VARIABLES
    args,         \* parsed command line of the current invocation
    runs,         \* number of invocations of the program so far
    files,        \* checkpoint files on disk, by the epoch number in the name
    bestfile,     \* the best-marker file: <<>> or <<record>>
    pc,           \* per process: position in main()/train()/validate()
    rank,         \* per process: args.rank
    head,         \* per process: classifier head built
    start_epoch,  \* per process: args.start_epoch
    best_prec1,   \* per process: global best_prec1
    optimizer,    \* per process: [lr, initial_lr] of the SGD param group
    model_state,  \* per process: epochs whose steps produced the parameters
    epoch,        \* per process: loop variable of the epoch loop
    i,            \* per process: minibatch index in train()
    vi,           \* per process: minibatch index in validate()
    grad,         \* per process: state of the parameter gradients
    mb,           \* per process: steps executed so far in the current minibatch
    prec1,        \* per process: value returned by the last validate()
    nval,         \* per process: completed validate() calls in this invocation
    trained,      \* per process: epochs for which train() ran in this invocation
    writes,       \* per process: [ckpt, best] files written in this invocation
    logged,       \* per process: kinds of output printed in this invocation
    seen_max      \* per process (history): largest validation accuracy seen in
                  \* this invocation, the restored best score included

vars == <<args, runs, files, bestfile, pc, rank, head, start_epoch, best_prec1,
          optimizer, model_state, epoch, i, vi, grad, mb, prec1, nval, trained,
          writes, logged, seen_max>>

Proc == 0 .. (WorldSize - 1)
PrecVals == 0 .. MaxPrec

\* the processes of the invocation: one per rank when distributed, else one
Live == IF args.distributed THEN Proc ELSE {0}

\* ------------------------------------------------------------ pure helpers
Max2(a, b) == IF a >= b THEN a ELSE b

RECURSIVE SeqMax(_)
SeqMax(s) == IF Len(s) = 1 THEN s[1] ELSE Max2(s[1], SeqMax(Tail(s)))

\* lr * gamma
MulGamma(x) == x \div GammaInv

RECURSIVE Decay(_, _)
Decay(x, k) == IF k = 0 THEN x ELSE Decay(MulGamma(x), k - 1)

\* bisect_right(milestones, e): number of milestones <= e
BisectRight(ms, e) == Cardinality({k \in 1 .. Len(ms) : ms[k] <= e})

IsPrefix(s, t) == Len(s) <= Len(t) /\ SubSeq(t, 1, Len(s)) = s

\* strictly increasing lists of at most two epochs
LrStepsSet ==
    ({<<>>} \cup {<<a>> : a \in 0 .. MaxEpochs})
    \cup {s \in (0 .. MaxEpochs) \X (0 .. MaxEpochs) : s[1] < s[2]}

NoResume == [kind |-> "none", n |-> 0]
MissingResume == [kind |-> "missing", n |-> 0]

\* --resume values that name a file present on disk
ExistingResume ==
    {[kind |-> "ckpt", n |-> n] : n \in DOMAIN files}
    \cup (IF bestfile # <<>> THEN {[kind |-> "best", n |-> 0]} ELSE {})

\* os.path.isfile(args.resume)
IsFile(r) ==
    \/ r.kind = "ckpt" /\ r.n \in DOMAIN files
    \/ r.kind = "best" /\ bestfile # <<>>

\* torch.load(args.resume)
Load(r) == IF r.kind = "best" THEN bestfile[1] ELSE files[r.n]

\* ------------------------------------------------------------------- Init
\* the state of every process when main() is entered
FreshPc(a) == [p \in Proc |-> IF a.distributed \/ p = 0 THEN "start" ELSE "off"]
FreshStart(a) == [p \in Proc |-> a.start_epoch]
FreshOpt == [p \in Proc |-> [lr |-> 0, initial_lr |-> 0]]
FreshWrites == [p \in Proc |-> [ckpt |-> 0, best |-> 0]]
Zeros == [p \in Proc |-> 0]
Empties == [p \in Proc |-> <<>>]

\* command lines of a single-process invocation
Configs ==
    [distributed : {FALSE}, evaluate : BOOLEAN, sampled : BOOLEAN,
     sample_num : {NumClasses, NumClasses + 1}, num_classes : {NumClasses},
     epochs : 0 .. MaxEpochs, start_epoch : 0 .. 1, lr_steps : LrStepsSet,
     lr : {DefaultLr}, resume : {NoResume, MissingResume}]

\* command lines of a distributed invocation: the last epoch of the budget
DistConfigs ==
    [distributed : {TRUE}, evaluate : BOOLEAN, sampled : BOOLEAN,
     sample_num : {NumClasses, NumClasses + 1}, num_classes : {NumClasses},
     epochs : {MaxEpochs}, start_epoch : {MaxEpochs - 1},
     lr_steps : {<<MaxEpochs - 1>>, <<MaxEpochs>>},
     lr : {DefaultLr}, resume : {NoResume}]

Init ==
    /\ args \in Configs \cup DistConfigs
    /\ runs = 1
    /\ files = <<>>
    /\ bestfile = <<>>
    /\ pc = FreshPc(args)
    /\ start_epoch = FreshStart(args)
    /\ rank = [p \in Proc |-> -1]
    /\ head = [p \in Proc |-> "none"]
    /\ grad = [p \in Proc |-> "none"]
    /\ logged = [p \in Proc |-> {}]
    /\ optimizer = FreshOpt
    /\ writes = FreshWrites
    /\ best_prec1 = Zeros /\ epoch = Zeros /\ i = Zeros /\ vi = Zeros
    /\ prec1 = Zeros /\ nval = Zeros /\ seen_max = Zeros
    /\ model_state = Empties /\ mb = Empties /\ trained = Empties

\* ------------------------------------------------------- main(): startup
\* lines 88-98: parse_args, init_processes (rank p of the group) or rank 0
InitTopology(p) ==
    /\ pc[p] = "start"
    /\ rank' = [rank EXCEPT ![p] = IF args.distributed THEN p ELSE 0]
    /\ logged' = [logged EXCEPT ![p] = @ \cup {"startup"}]
    /\ pc' = [pc EXCEPT ![p] = "create_model"]
    /\ UNCHANGED <<seen_max, args, runs, files, bestfile, head, start_epoch, best_prec1,
                   optimizer, model_state, epoch, i, vi, grad, mb, prec1, nval,
                   trained, writes>>

\* mutant of SampleOk: the assertion is dropped
SampleOkNoAssert(sampled, sample_num, num_classes) == TRUE

\* line 109: assert args.sample_num <= args.num_classes, under args.sampled
SampleOk(sampled, sample_num, num_classes) ==
    ~sampled \/ sample_num <= num_classes

\* lines 100-130: backbone, classifier head, replication, criterion, SGD
BuildModel(p) ==
    /\ pc[p] = "create_model"
    /\ IF SampleOk(args.sampled, args.sample_num, args.num_classes)
       THEN /\ head' = [head EXCEPT ![p] =
                           IF args.sampled THEN "HFClassifier" ELSE "Classifier"]
            /\ optimizer' = [optimizer EXCEPT ![p] =
                                [lr |-> args.lr, initial_lr |-> 0]]
            /\ pc' = [pc EXCEPT ![p] = "resume"]
       ELSE /\ pc' = [pc EXCEPT ![p] = "failed"]
            /\ UNCHANGED <<head, optimizer>>
    /\ UNCHANGED <<seen_max, args, runs, files, bestfile, rank, start_epoch, best_prec1,
                   model_state, epoch, i, vi, grad, mb, prec1, nval, trained,
                   writes, logged>>

\* mutant of ResumeEpoch: the epoch last trained instead of the next one
ResumeEpochLast(ck) == ck.epoch - 1

\* line 137: args.start_epoch = checkpoint['epoch']
ResumeEpoch(ck) == ck.epoch

\* mutant of ResumeBest: the stored best score is not restored
ResumeBestDefault(ck) == 0

\* line 138: best_prec1 = checkpoint['best_prec1']
ResumeBest(ck) == ck.best_prec1

\* lines 132-144: optionally resume from a checkpoint
Resume(p) ==
    /\ pc[p] = "resume"
    /\ IF args.resume.kind # "none" /\ IsFile(args.resume)
       THEN LET ck == Load(args.resume) IN
            /\ start_epoch' = [start_epoch EXCEPT ![p] = ResumeEpoch(ck)]
            /\ best_prec1' = [best_prec1 EXCEPT ![p] = ResumeBest(ck)]
            /\ model_state' = [model_state EXCEPT ![p] = ck.state_dict]
            /\ optimizer' = [optimizer EXCEPT ![p] = ck.optimizer]
            /\ seen_max' = [seen_max EXCEPT ![p] = ck.best_prec1]
       ELSE UNCHANGED <<start_epoch, best_prec1, model_state, optimizer,
                        seen_max>>
    /\ logged' = [logged EXCEPT ![p] =
                     IF args.resume.kind # "none" THEN @ \cup {"startup"} ELSE @]
    /\ pc' = [pc EXCEPT ![p] = "loaders"]
    /\ UNCHANGED <<args, runs, files, bestfile, rank, head, epoch, i, vi, grad,
                   mb, prec1, nval, trained, writes>>

\* mutant of LrStepsOk: <= instead of <
LrStepsOkLe(lr_steps, epochs) == lr_steps # <<>> /\ SeqMax(lr_steps) <= epochs

\* line 185: assert max(args.lr_steps) < args.epochs (max of [] raises)
LrStepsOk(lr_steps, epochs) == lr_steps # <<>> /\ SeqMax(lr_steps) < epochs

\* line 186: MultiStepLR(optimizer, lr_steps, gamma), last_epoch = -1: records
\* initial_lr when absent and sets lr for epoch 0
MultiStepLR(opt, lr_steps) ==
    LET base == IF opt.initial_lr = 0 THEN opt.lr ELSE opt.initial_lr IN
    [lr |-> Decay(base, BisectRight(lr_steps, 0)), initial_lr |-> base]

\* lines 146-186: data loaders, evaluate-only branch, schedule check
Dispatch(p) ==
    /\ pc[p] = "loaders"
    /\ IF args.evaluate
       THEN /\ pc' = [pc EXCEPT ![p] = "validate"]
            /\ vi' = [vi EXCEPT ![p] = 0]
            /\ UNCHANGED <<optimizer, epoch>>
       ELSE IF LrStepsOk(args.lr_steps, args.epochs)
       THEN /\ optimizer' = [optimizer EXCEPT ![p] =
                                MultiStepLR(@, args.lr_steps)]
            /\ epoch' = [epoch EXCEPT ![p] = start_epoch[p]]
            /\ pc' = [pc EXCEPT ![p] = "epoch_loop"]
            /\ UNCHANGED vi
       ELSE /\ pc' = [pc EXCEPT ![p] = "failed"]
            /\ UNCHANGED <<optimizer, epoch, vi>>
    /\ UNCHANGED <<seen_max, args, runs, files, bestfile, rank, head, start_epoch,
                   best_prec1, model_state, i, grad, mb, prec1, nval, trained,
                   writes, logged>>

\* --------------------------------------------------- main(): epoch loop
\* lines 188-193: next epoch of range(start_epoch, epochs), entry of train()
EpochLoop(p) ==
    /\ pc[p] = "epoch_loop"
    /\ IF epoch[p] < args.epochs
       THEN /\ trained' = [trained EXCEPT ![p] = Append(@, epoch[p])]
            /\ i' = [i EXCEPT ![p] = 0]
            /\ pc' = [pc EXCEPT ![p] = "forward"]
       ELSE /\ pc' = [pc EXCEPT ![p] = "done"]
            /\ UNCHANGED <<trained, i>>
    /\ UNCHANGED <<seen_max, args, runs, files, bestfile, rank, head, start_epoch,
                   best_prec1, optimizer, model_state, epoch, vi, grad, mb,
                   prec1, nval, writes, logged>>

\* ------------------------------------------------------------- train()
\* lines 221-232: next minibatch, data time, forward pass
Forward(p) ==
    /\ pc[p] = "forward"
    /\ mb' = [mb EXCEPT ![p] = <<"forward">>]
    /\ pc' = [pc EXCEPT ![p] = "loss"]
    /\ UNCHANGED <<seen_max, args, runs, files, bestfile, rank, head, start_epoch,
                   best_prec1, optimizer, model_state, epoch, i, vi, grad,
                   prec1, nval, trained, writes, logged>>

\* line 233: loss = criterion(output, target)
Loss(p) ==
    /\ pc[p] = "loss"
    /\ mb' = [mb EXCEPT ![p] = Append(@, "loss")]
    /\ pc' = [pc EXCEPT ![p] = "meters"]
    /\ UNCHANGED <<seen_max, args, runs, files, bestfile, rank, head, start_epoch,
                   best_prec1, optimizer, model_state, epoch, i, vi, grad,
                   prec1, nval, trained, writes, logged>>

\* lines 236-238: accuracy, losses.update, top1.update
Meters(p) ==
    /\ pc[p] = "meters"
    /\ mb' = [mb EXCEPT ![p] = Append(@, "meters")]
    /\ pc' = [pc EXCEPT ![p] = "zero_grad"]
    /\ UNCHANGED <<seen_max, args, runs, files, bestfile, rank, head, start_epoch,
                   best_prec1, optimizer, model_state, epoch, i, vi, grad,
                   prec1, nval, trained, writes, logged>>

\* mutant of zero_grad: the gradients are left as they are
zero_grad_skipped(g) == g

\* optimizer.zero_grad() on gradients g
zero_grad(g) == "zero"

\* loss.backward() on gradients g: adds this minibatch's gradient
backward(g) == IF g \in {"none", "zero"} THEN "fresh" ELSE "accumulated"

\* line 241: optimizer.zero_grad()
ZeroGrad(p) ==
    /\ pc[p] = "zero_grad"
    /\ grad' = [grad EXCEPT ![p] = zero_grad(@)]
    /\ mb' = [mb EXCEPT ![p] = Append(@, "zero_grad")]
    /\ pc' = [pc EXCEPT ![p] = "backward"]
    /\ UNCHANGED <<seen_max, args, runs, files, bestfile, rank, head, start_epoch,
                   best_prec1, optimizer, model_state, epoch, i, vi, prec1,
                   nval, trained, writes, logged>>

\* rank q has reached the backward pass of the minibatch rank p is in
AtBackward(q, p) ==
    \/ epoch[q] > epoch[p]
    \/ epoch[q] = epoch[p] /\ i[q] > i[p]
    \/ /\ epoch[q] = epoch[p] /\ i[q] = i[p]
       /\ pc[q] \in {"backward", "optstep", "end_batch"}

\* line 242: loss.backward(); under DistributedDataParallel (line 122) the
\* gradient all-reduce waits for every rank's backward pass
Backward(p) ==
    /\ pc[p] = "backward"
    /\ \A q \in Live : AtBackward(q, p)
    /\ grad' = [grad EXCEPT ![p] = backward(@)]
    /\ mb' = [mb EXCEPT ![p] = Append(@, "backward")]
    /\ pc' = [pc EXCEPT ![p] = "optstep"]
    /\ UNCHANGED <<seen_max, args, runs, files, bestfile, rank, head, start_epoch,
                   best_prec1, optimizer, model_state, epoch, i, vi, prec1,
                   nval, trained, writes, logged>>

\* line 243: optimizer.step()
OptStep(p) ==
    /\ pc[p] = "optstep"
    /\ model_state' = [model_state EXCEPT ![p] = Append(@, epoch[p])]
    /\ grad' = [grad EXCEPT ![p] = IF @ = "fresh" THEN "applied" ELSE @]
    /\ mb' = [mb EXCEPT ![p] = Append(@, "step")]
    /\ pc' = [pc EXCEPT ![p] = "end_batch"]
    /\ UNCHANGED <<seen_max, args, runs, files, bestfile, rank, head, start_epoch,
                   best_prec1, optimizer, epoch, i, vi, prec1, nval, trained,
                   writes, logged>>

\* lines 249, 284: i % args.print_freq == 0 and args.rank == 0
ShouldPrint(k, r) == k % PrintFreq = 0 /\ r = 0

\* lines 245-256: batch time, progress line, end of the loop body
EndBatch(p) ==
    /\ pc[p] = "end_batch"
    /\ mb' = [mb EXCEPT ![p] = Append(@, "timing")]
    /\ logged' = [logged EXCEPT ![p] =
                     IF ShouldPrint(i[p], rank[p])
                     THEN @ \cup {"train_progress"} ELSE @]
    /\ i' = [i EXCEPT ![p] = @ + 1]
    /\ IF i[p] + 1 < NumBatches
       THEN /\ pc' = [pc EXCEPT ![p] = "forward"]
            /\ UNCHANGED vi
       ELSE /\ pc' = [pc EXCEPT ![p] = "validate"]
            /\ vi' = [vi EXCEPT ![p] = 0]
    /\ UNCHANGED <<seen_max, args, runs, files, bestfile, rank, head, start_epoch,
                   best_prec1, optimizer, model_state, epoch, grad, prec1,
                   nval, trained, writes>>

\* ----------------------------------------------------------- validate()
\* lines 268-290: one validation minibatch and its progress line
ValBatch(p) ==
    /\ pc[p] = "validate"
    /\ vi[p] < NumValBatches
    /\ logged' = [logged EXCEPT ![p] =
                     IF ShouldPrint(vi[p], rank[p])
                     THEN @ \cup {"val_progress"} ELSE @]
    /\ vi' = [vi EXCEPT ![p] = @ + 1]
    /\ UNCHANGED <<seen_max, args, runs, files, bestfile, pc, rank, head, start_epoch,
                   best_prec1, optimizer, model_state, epoch, i, grad, mb,
                   prec1, nval, trained, writes>>

\* mutant of AfterValidate: the return after the evaluate-only pass is missing
AfterValidateNoReturn(evaluate) == "checkpoint"

\* lines 181-183, 196: where main() goes on after validate() returns
AfterValidate(evaluate) == IF evaluate THEN "done" ELSE "checkpoint"

\* lines 292-294: summary line, return of top1.avg to main()
ValReturn(p) ==
    /\ pc[p] = "validate"
    /\ vi[p] = NumValBatches
    /\ logged' = [logged EXCEPT ![p] = @ \cup {"val_summary"}]
    /\ \E v \in PrecVals :
          /\ prec1' = [prec1 EXCEPT ![p] = v]
          /\ seen_max' = [seen_max EXCEPT ![p] = Max2(@, v)]
    /\ nval' = [nval EXCEPT ![p] = @ + 1]
    /\ pc' = [pc EXCEPT ![p] = AfterValidate(args.evaluate)]
    /\ UNCHANGED <<args, runs, files, bestfile, rank, head, start_epoch,
                   best_prec1, optimizer, model_state, epoch, i, vi, grad, mb,
                   trained, writes>>

\* ------------------------------------------------- main(): checkpointing
\* mutant of IsBest: >= instead of >
IsBestOrEqual(p1, best) == p1 >= best

\* line 200: is_best = prec1 > best_prec1
IsBest(p1, best) == p1 > best

\* line 201: best_prec1 = max(prec1, best_prec1)
NewBest(p1, best) == Max2(p1, best)

\* mutant of CkptEpoch: the epoch just trained instead of the next one
CkptEpochSame(e) == e

\* lines 203, 208: the epoch number stored and used in the file name
CkptEpoch(e) == e + 1

\* lines 202-207: the checkpoint record built by process p
CkptRecord(p, best) ==
    [epoch |-> CkptEpoch(epoch[p]), best_prec1 |-> best,
     state_dict |-> model_state[p], optimizer |-> optimizer[p]]

\* save_ckpt(state, path, epoch, is_best): the files after the call
SavedFiles(state, n) ==
    [k \in DOMAIN files \cup {n} |-> IF k = n THEN state ELSE files[k]]
SavedBest(state, is_best) == IF is_best THEN <<state>> ELSE bestfile

\* lines 198-208: best-score bookkeeping and save_ckpt on rank 0, then the
\* next iteration of the epoch loop
Checkpoint(p) ==
    /\ pc[p] = "checkpoint"
    /\ IF rank[p] = 0
       THEN LET is_best == IsBest(prec1[p], best_prec1[p])
                best == NewBest(prec1[p], best_prec1[p])
                state == CkptRecord(p, best)
            IN /\ best_prec1' = [best_prec1 EXCEPT ![p] = best]
               /\ files' = SavedFiles(state, CkptEpoch(epoch[p]))
               /\ bestfile' = SavedBest(state, is_best)
               /\ writes' = [writes EXCEPT ![p] =
                                [ckpt |-> @.ckpt + 1,
                                 best |-> @.best + (IF is_best THEN 1 ELSE 0)]]
       ELSE UNCHANGED <<best_prec1, files, bestfile, writes>>
    /\ epoch' = [epoch EXCEPT ![p] = @ + 1]
    /\ pc' = [pc EXCEPT ![p] = "epoch_loop"]
    /\ UNCHANGED <<seen_max, args, runs, rank, head, start_epoch, optimizer, model_state,
                   i, vi, grad, mb, prec1, nval, trained, logged>>

\* ------------------------------------------------------- next invocation
\* the program is started again on the same disk, once every process of the
\* last invocation has ended, with any --resume value, with or without
\* --evaluate, and the other options as before
Restart ==
    /\ runs < MaxRuns
    /\ \A p \in Live : pc[p] \in {"done", "failed"}
    /\ \E r \in {NoResume, MissingResume} \cup ExistingResume, ev \in BOOLEAN :
          args' = [args EXCEPT !.resume = r, !.evaluate = ev]
    /\ runs' = runs + 1
    /\ pc' = FreshPc(args)
    /\ start_epoch' = FreshStart(args)
    /\ rank' = [p \in Proc |-> -1]
    /\ head' = [p \in Proc |-> "none"]
    /\ grad' = [p \in Proc |-> "none"]
    /\ logged' = [p \in Proc |-> {}]
    /\ optimizer' = FreshOpt
    /\ writes' = FreshWrites
    /\ best_prec1' = Zeros /\ epoch' = Zeros /\ i' = Zeros /\ vi' = Zeros
    /\ prec1' = Zeros /\ nval' = Zeros /\ seen_max' = Zeros
    /\ model_state' = Empties /\ mb' = Empties /\ trained' = Empties
    /\ UNCHANGED <<files, bestfile>>

Next ==
    \/ \E p \in Proc :
          \/ InitTopology(p) \/ BuildModel(p) \/ Resume(p) \/ Dispatch(p)
          \/ EpochLoop(p)
          \/ Forward(p) \/ Loss(p) \/ Meters(p) \/ ZeroGrad(p) \/ Backward(p)
          \/ OptStep(p) \/ EndBatch(p)
          \/ ValBatch(p) \/ ValReturn(p)
          \/ Checkpoint(p)
    \/ Restart

Spec == Init /\ [][Next]_vars

\* ================================================================ claims
TrainPcs == {"forward", "loss", "meters", "zero_grad", "backward", "optstep",
             "end_batch"}

\* process p executes the end-of-epoch bookkeeping (lines 198-208) in this step
EndOfEpoch(p) == pc[p] = "checkpoint" /\ pc'[p] = "epoch_loop"

\* process p (over)writes the best-marker file in this step
BestWritten(p) == writes'[p].best = writes[p].best + 1

\* C1: at the end of an epoch the checkpointing process (rank 0) overwrites
\* the best-marker file if and only if the epoch's prec1 is strictly greater
\* than best_prec1 as it was before the epoch; a tie leaves the file alone,
\* and no other step of an invocation touches the file.
C1_BestIffStrictlyGreater ==
    [][/\ \A p \in Proc :
            /\ (EndOfEpoch(p) /\ rank[p] = 0) =>
                  /\ BestWritten(p) <=> (prec1[p] > best_prec1[p])
                  /\ BestWritten(p) =>
                        /\ bestfile' # <<>>
                        /\ bestfile'[1] = files'[epoch[p] + 1]
                  /\ ~BestWritten(p) => bestfile' = bestfile
            /\ BestWritten(p) => (EndOfEpoch(p) /\ rank[p] = 0)
       /\ bestfile' # bestfile => \E p \in Proc : BestWritten(p)
      ]_vars

\* C1 witness: an epoch whose accuracy ties the best left the best file of an
\* earlier epoch in place
C1_Witness ==
    \E p \in Proc :
        /\ runs = 1 /\ pc[p] = "epoch_loop" /\ rank[p] = 0
        /\ writes[p].ckpt = 2 /\ writes[p].best = 1
        /\ prec1[p] = best_prec1[p]
        /\ bestfile # <<>> /\ bestfile[1].epoch < epoch[p]

\* C2: in every state, the best_prec1 stored in a best-marker file written
\* by the running invocation is the largest validation accuracy seen by that
\* invocation up to and including the epoch of the write, the best score
\* restored on resume included: at each write it is the largest seen so far,
\* and afterwards nothing seen through the file's epoch exceeds it (an
\* accuracy returned for a later epoch is the only one not yet counted).
C2_BestFileHoldsMaximum ==
    /\ [](\A p \in Proc :
            writes[p].best >= 1 =>
                /\ bestfile # <<>>
                /\ bestfile[1].best_prec1 = best_prec1[p]
                /\ pc[p] # "checkpoint" => bestfile[1].best_prec1 = seen_max[p]
                /\ pc[p] = "checkpoint" =>
                      seen_max[p] = Max2(bestfile[1].best_prec1, prec1[p]))
    /\ [][\A p \in Proc :
            BestWritten(p) => /\ bestfile' # <<>>
                              /\ bestfile'[1].best_prec1 = seen_max[p]
                              /\ bestfile'[1].epoch = epoch[p] + 1
         ]_vars

\* C2 witness: a resumed invocation restored a positive best score and later
\* wrote the best file with a larger one
C2_Witness ==
    \E p \in Proc :
        /\ runs = 2 /\ args.resume.kind = "ckpt" /\ writes[p].best = 1
        /\ args.resume.n \in DOMAIN files
        /\ files[args.resume.n].best_prec1 > 0
        /\ bestfile # <<>>
        /\ bestfile[1].best_prec1 > files[args.resume.n].best_prec1

\* C3 (as claimed): while epoch e is trained the learning rate is the
\* initial rate multiplied by gamma once for each epoch of lr_steps reached.
C3_LrFollowsSchedule ==
    \A p \in Proc :
        pc[p] \in TrainPcs =>
            optimizer[p].lr = Decay(args.lr, BisectRight(args.lr_steps, epoch[p]))

NothingRun(p) ==
    /\ trained[p] = <<>> /\ mb[p] = <<>>
    /\ nval[p] = 0 /\ vi[p] = 0
    /\ writes[p] = [ckpt |-> 0, best |-> 0]

\* C5 (as claimed): with sample_num > num_classes, whatever the other
\* options, startup fails before a head is built or anything runs.
C5_Original ==
    \A p \in Proc :
        args.sample_num > args.num_classes =>
            /\ head[p] = "none" /\ NothingRun(p)
            /\ pc[p] \in {"off", "start", "create_model", "failed"}

\* C5 (amended): with the sampled-softmax flag set and sample_num >
\* num_classes, startup fails before a head is built or anything runs.
C5_SampledStartupFails ==
    \A p \in Proc :
        (args.sampled /\ args.sample_num > args.num_classes) =>
            /\ head[p] = "none" /\ NothingRun(p)
            /\ pc[p] \in {"off", "start", "create_model", "failed"}

\* C5 witness: a sampled run with too large a sample has failed
C5_Witness ==
    \E p \in Proc :
        /\ args.sampled /\ args.sample_num > args.num_classes
        /\ pc[p] = "failed"

LrStepsTooLate == args.lr_steps # <<>> /\ SeqMax(args.lr_steps) >= args.epochs

\* C6 (as claimed): with max(lr_steps) >= epochs, whatever the other
\* options, main() fails and no training step, validation pass or
\* checkpoint write is performed.
C6_Original ==
    \A p \in Proc :
        LrStepsTooLate => /\ NothingRun(p)
                          /\ pc[p] \notin {"epoch_loop", "checkpoint", "done"}

\* C6 (amended): the same, outside evaluate-only mode.
C6_ScheduleStartupFails ==
    \A p \in Proc :
        (LrStepsTooLate /\ ~args.evaluate) =>
            /\ NothingRun(p)
            /\ pc[p] \notin {"epoch_loop", "checkpoint", "done"}

\* C6 witness: a training run whose schedule reaches the epoch budget has
\* failed at the schedule check, after model and resume
C6_Witness ==
    \E p \in Proc :
        /\ LrStepsTooLate /\ ~args.evaluate
        /\ pc[p] = "failed" /\ head[p] # "none"

ProgressKinds == {"train_progress", "val_progress", "val_summary"}

\* C7 (as claimed): a process whose rank is not 0 writes no checkpoint and
\* prints nothing from train() or validate().
C7_OnlyRankZero ==
    \A p \in Proc :
        rank[p] > 0 => /\ writes[p] = [ckpt |-> 0, best |-> 0]
                       /\ logged[p] \cap ProgressKinds = {}

\* the five steps the claim names, in the order they have in mb
Named(s) ==
    SelectSeq(s, LAMBDA x : x \in {"forward", "loss", "meters", "backward", "step"})

\* C8 (as claimed): per minibatch forward, loss, backward, optimizer step,
\* and only then the loss/accuracy meters.
C8_Original ==
    \A p \in Proc :
        IsPrefix(Named(mb[p]), <<"forward", "loss", "backward", "step", "meters">>)

StepOrder ==
    <<"forward", "loss", "meters", "zero_grad", "backward", "step", "timing">>

\* C8 (amended): per minibatch the steps run in the order forward, loss,
\* loss/accuracy meters, zero_grad, backward, optimizer step, batch time;
\* every backward pass finds zeroed gradients; a minibatch begins only when
\* the one before it has run all its steps.
C8_StepOrder ==
    [][\A p \in Proc :
          /\ IsPrefix(mb'[p], StepOrder)
          /\ grad'[p] # "accumulated"
          /\ (pc'[p] = "optstep" /\ pc[p] # "optstep") =>
                (grad[p] = "zero" /\ grad'[p] = "fresh")
          /\ (mb'[p] # mb[p] /\ Len(mb'[p]) = 1) => mb[p] \in {<<>>, StepOrder}
          /\ (pc'[p] \in TrainPcs /\ pc'[p] # "forward") =>
                Len(mb'[p]) < Len(StepOrder)
      ]_vars

\* C8 witness: the second minibatch of an epoch has run all its steps
C8_Witness ==
    \E p \in Proc : i[p] = 2 /\ mb[p] = StepOrder /\ grad[p] = "applied"

\* C9 (as claimed): with --evaluate, whatever the other options, main() runs
\* validate() once and returns; nothing is trained, the epoch loop is not
\* entered and nothing is written.
C9_Original ==
    \A p \in Proc :
        args.evaluate =>
            /\ trained[p] = <<>> /\ mb[p] = <<>>
            /\ writes[p] = [ckpt |-> 0, best |-> 0]
            /\ pc[p] \notin ({"epoch_loop", "checkpoint"} \cup TrainPcs)
            /\ nval[p] <= 1
            /\ pc[p] # "failed"
            /\ pc[p] = "done" => nval[p] = 1

\* C9 (amended): with --evaluate nothing is trained, the epoch loop is not
\* entered and nothing is written; unless the sampled-softmax assertion
\* fails at startup, main() runs validate() once and returns.
C9_EvaluateOnly ==
    \A p \in Proc :
        args.evaluate =>
            /\ trained[p] = <<>> /\ mb[p] = <<>>
            /\ writes[p] = [ckpt |-> 0, best |-> 0]
            /\ pc[p] \notin ({"epoch_loop", "checkpoint"} \cup TrainPcs)
            /\ nval[p] <= 1
            /\ pc[p] = "failed" =>
                  ~SampleOk(args.sampled, args.sample_num, args.num_classes)
            /\ pc[p] = "done" => nval[p] = 1

\* C9 witness: an evaluate-only run resumed from a checkpoint, with a
\* schedule that reaches the epoch budget, has returned after one pass
C9_Witness ==
    \E p \in Proc :
        /\ args.evaluate /\ pc[p] = "done" /\ nval[p] = 1
        /\ args.resume.kind = "ckpt" /\ start_epoch[p] > 0

RECURSIVE Range(_, _)
\* <<a, a + 1, ..., b>>
Range(a, b) == IF a > b THEN <<>> ELSE <<a>> \o Range(a + 1, b)

RECURSIVE Repeat(_, _)
Repeat(x, n) == IF n = 0 THEN <<>> ELSE <<x>> \o Repeat(x, n - 1)

RECURSIVE Steps(_, _)
\* the optimizer steps of epochs a .. b: NumBatches per epoch, in order
Steps(a, b) == IF a > b THEN <<>> ELSE Repeat(a, NumBatches) \o Steps(a + 1, b)

\* C10: the checkpoint named n stores epoch n and parameters trained through
\* epoch n - 1 with no epoch repeated or skipped; an invocation resumed from
\* it trains n, ..., epochs - 1 in order, so that its parameters at the end
\* have seen every epoch from the first one to epochs - 1 exactly once; with
\* n >= epochs it trains nothing and writes nothing.
C10_ResumeContinuity ==
    /\ \A n \in DOMAIN files :
          /\ files[n].epoch = n
          /\ files[n].state_dict # <<>>
          /\ files[n].state_dict = Steps(files[n].state_dict[1], n - 1)
    /\ \A p \in Proc :
          (args.resume.kind = "ckpt" /\ ~args.evaluate
             /\ pc[p] \in {"epoch_loop", "checkpoint", "validate", "done"} \cup TrainPcs) =>
              /\ start_epoch[p] = args.resume.n
              /\ IsPrefix(trained[p], Range(args.resume.n, args.epochs - 1))
              /\ pc[p] = "done" =>
                    /\ trained[p] = Range(args.resume.n, args.epochs - 1)
                    /\ model_state[p] = Steps(model_state[p][1], args.epochs - 1)
              /\ args.resume.n >= args.epochs =>
                    /\ trained[p] = <<>>
                    /\ writes[p] = [ckpt |-> 0, best |-> 0]

\* C10 witness: an invocation resumed from the checkpoint of epoch 0 has
\* trained epoch 1 and ended with parameters that saw epochs 0 and 1 once
C10_Witness ==
    \E p \in Proc :
        /\ runs = 2 /\ args.resume = [kind |-> "ckpt", n |-> 1]
        /\ ~args.evaluate /\ pc[p] = "done"
        /\ trained[p] = <<1>>
        /\ model_state[p] = Steps(0, 1)

====
